---- MODULE Spec2Model ----
(***************************************************************************)
(* A model of the scrap-tool extraction service (src/src/scraper.js).      *)
(*                                                                         *)
(* Spec        : concurrent WebScraper.scrapeUrl calls sharing the static  *)
(*               WebScraper.browser handle (getBrowser, the FAQ-mode page  *)
(*               pipeline, fetchStaticHtml).                               *)
(* SpecFaqs    : extractFaqs applied to documents assembled element by     *)
(*               element.                                                  *)
(* SpecCrumbs  : extractBreadcrumbs applied to documents and page URLs.    *)
(* SpecBody    : extractArticleBody applied to documents assembled block   *)
(*               by block.                                                 *)
(***************************************************************************)
EXTENDS Integers, Sequences, FiniteSets, TLC

\* Number of scrapeUrl calls that may be in flight in one run.
NumCalls == 2

Calls == 1 .. NumCalls

\* The type arguments a caller may pass; "undefined" is the omitted argument.
TypeArgs == {"faq", "article", "breadcrumbs", "undefined"}

VARIABLES
    browser,      \* static WebScraper.browser: 0 is null, else a session id
    nLaunched,    \* sessions created so far by puppeteer.launch (ids 1..nLaunched)
    alive,        \* the sessions whose isConnected() is true
    tabs,         \* the page a call opened, by opener: [session, state, users]
    pc,           \* where each scrapeUrl call stands (the await it is parked on)
    type,         \* each call's type parameter after defaulting
    localBrowser, \* each call's local const browser (0 before it is bound)
    page,         \* each call's local const page: the tab it is bound to, 0 before
    html,         \* whether each call's local html has been assigned
    result,       \* each call's settled outcome: [kind, message]
    log,          \* per-call history: what the call did and what failed
    faqDoc,       \* the document handed to extractFaqs, as its selectors see it
    faqsOut,      \* what extractFaqs did with faqDoc
    crumbDoc,     \* the links each breadcrumb selector matches in the document
    crumbUrl,     \* the url handed to extractBreadcrumbs
    crumbsOut,    \* what extractBreadcrumbs did with crumbDoc and crumbUrl
    bodyDoc,      \* the elements of the document handed to extractArticleBody
    bodyBlocks,   \* the number of blocks bodyDoc was assembled from
    bodyOut,      \* what extractArticleBody did with bodyDoc
    slashUrl,     \* the URL handed to the ensureTrailingSlash helpers
    slashOut,     \* what the helpers return for slashUrl, and for what they returned
    endpoint,     \* the API request each call serves: [path, status]
    pageKind,     \* how the page being scrolled grows
    loadsLeft,    \* the loads a lazy-loading page has left
    remaining,    \* document.body.scrollHeight minus totalHeight of the scroll loop
    timer,        \* whether the scroll loop's interval timer is set or cleared
    dateDoc,      \* the date elements of the document handed to extractDates, in order
    datesOut      \* what extractDates did with dateDoc

sessionVars == <<browser, nLaunched, alive, tabs, pc, type, localBrowser, page, html, result, log>>

faqVars == <<faqDoc, faqsOut>>

crumbVars == <<crumbDoc, crumbUrl, crumbsOut>>

bodyVars == <<bodyDoc, bodyBlocks, bodyOut>>

slashVars == <<slashUrl, slashOut>>

scrollVars == <<pageKind, loadsLeft, remaining, timer>>

dateVars == <<dateDoc, datesOut>>

extractVars == <<faqVars, crumbVars, bodyVars, slashVars, scrollVars, dateVars>>

apiVars == <<endpoint>>

vars == <<sessionVars, extractVars, apiVars>>

NoResult == [kind |-> "none", message |-> ""]

NoLog == [arg |-> "none", launches |-> 0, gotos |-> 0, gets |-> 0, newPages |-> 0,
          failure |-> "none", getBrowser |-> "none", waitTimedOut |-> FALSE]

\* scrapeUrl(url, type = 'article'): the default parameter value.
TypeParam(arg) == IF arg = "undefined" THEN "article" ELSE arg

\* The branch condition of scrapeUrl: type === 'faq'.
UsesRenderer_Mutant(t) == t # "article"

UsesRenderer(t) == t = "faq"

\* The reuse condition of getBrowser: WebScraper.browser && isConnected().
SessionUsable_Mutant(b, conn) == b # 0

SessionUsable(b, conn) == b # 0 /\ b \in conn

\* The catch block of scrapeUrl: throw new Error(`Failed to scrape URL: ...`).
Thrown(cause) == [kind |-> "error", message |-> "Failed to scrape URL: " \o cause]

\* The normal completion of scrapeUrl: cheerio.load, extractMetadata, return.
Returned == [kind |-> "data", message |-> ""]

\* An exception reaching the catch block of scrapeUrl from call c.
Fail(c, cause) ==
    /\ result' = [result EXCEPT ![c] = Thrown(cause)]
    /\ pc' = [pc EXCEPT ![c] = "done"]
    /\ log' = [log EXCEPT ![c].failure = cause]

\* A page operation of call c touches the tab bound to its local page.
Touch(c) == [tabs EXCEPT ![page[c]].users = @ \cup {c}]

NoTab == [session |-> 0, state |-> "none", users |-> {}]

InitSession ==
    /\ browser = 0
    /\ nLaunched = 0
    /\ alive = {}
    /\ tabs = [c \in Calls |-> NoTab]
    /\ pc = [c \in Calls |-> "idle"]
    /\ type = [c \in Calls |-> "none"]
    /\ localBrowser = [c \in Calls |-> 0]
    /\ page = [c \in Calls |-> 0]
    /\ html = [c \in Calls |-> FALSE]
    /\ result = [c \in Calls |-> NoResult]
    /\ log = [c \in Calls |-> NoLog]

\* scrapeUrl is entered and runs to its first await: in FAQ mode the body of
\* getBrowser up to `await puppeteer.launch`, otherwise fetchStaticHtml's
\* executor, which issues the GET.
ScrapeUrl(c, arg) ==
    /\ pc[c] = "idle"
    /\ type' = [type EXCEPT ![c] = TypeParam(arg)]
    /\ IF UsesRenderer(TypeParam(arg))
          THEN IF SessionUsable(browser, alive)
                  THEN /\ localBrowser' = [localBrowser EXCEPT ![c] = browser]
                       /\ pc' = [pc EXCEPT ![c] = "newPage"]
                       /\ log' = [log EXCEPT ![c].arg = arg,
                                             ![c].getBrowser = "reused"]
                  ELSE /\ pc' = [pc EXCEPT ![c] = "launch"]
                       /\ log' = [log EXCEPT ![c].arg = arg,
                                             ![c].launches = @ + 1,
                                             ![c].getBrowser =
                                                 IF browser = 0 THEN "first" ELSE "relaunch"]
                       /\ UNCHANGED localBrowser
          ELSE /\ pc' = [pc EXCEPT ![c] = "fetch"]
               /\ log' = [log EXCEPT ![c].arg = arg, ![c].gets = @ + 1]
               /\ UNCHANGED localBrowser
    /\ UNCHANGED <<browser, nLaunched, alive, tabs, page, html, result>>
    /\ UNCHANGED extractVars

\* puppeteer.launch resolves: the new session is stored and returned.
LaunchDone(c) ==
    /\ pc[c] = "launch"
    /\ nLaunched' = nLaunched + 1
    /\ alive' = alive \cup {nLaunched + 1}
    /\ browser' = nLaunched + 1
    /\ localBrowser' = [localBrowser EXCEPT ![c] = nLaunched + 1]
    /\ pc' = [pc EXCEPT ![c] = "newPage"]
    /\ UNCHANGED <<tabs, type, page, html, result, log>>
    /\ UNCHANGED <<extractVars, apiVars>>

\* puppeteer.launch rejects.
LaunchFail(c) ==
    /\ pc[c] = "launch"
    /\ Fail(c, "launch failed")
    /\ UNCHANGED <<browser, nLaunched, alive, tabs, type, localBrowser, page, html>>
    /\ UNCHANGED <<extractVars, apiVars>>

\* browser.newPage(): a tab of the call's own, or a throw on a dead session.
NewPage(c) ==
    /\ pc[c] = "newPage"
    /\ IF localBrowser[c] \in alive
          THEN /\ tabs' = [tabs EXCEPT ![c] = [session |-> localBrowser[c],
                                                state |-> "open", users |-> {c}]]
               /\ page' = [page EXCEPT ![c] = c]
               /\ pc' = [pc EXCEPT ![c] = "goto"]
               /\ log' = [log EXCEPT ![c].newPages = @ + 1]
               /\ UNCHANGED result
          ELSE /\ Fail(c, "session disconnected")
               /\ UNCHANGED <<tabs, page>>
    /\ UNCHANGED <<browser, nLaunched, alive, type, localBrowser, html>>
    /\ UNCHANGED <<extractVars, apiVars>>

\* page.setUserAgent and page.goto(url, {timeout: 60000}).
Goto(c, outcome) ==
    /\ pc[c] = "goto"
    /\ IF localBrowser[c] \notin alive
          THEN /\ Fail(c, "session disconnected")
               /\ UNCHANGED tabs
          ELSE /\ tabs' = Touch(c)
               /\ IF outcome = "ok"
                     THEN /\ pc' = [pc EXCEPT ![c] = "scroll"]
                          /\ log' = [log EXCEPT ![c].gotos = @ + 1]
                          /\ UNCHANGED result
                     ELSE /\ result' = [result EXCEPT ![c] = Thrown(outcome)]
                          /\ pc' = [pc EXCEPT ![c] = "done"]
                          /\ log' = [log EXCEPT ![c].gotos = @ + 1,
                                                ![c].failure = outcome]
    /\ UNCHANGED <<browser, nLaunched, alive, type, localBrowser, page, html>>
    /\ UNCHANGED <<extractVars, apiVars>>

\* The two page.evaluate calls: the scroll loop and the FAQ-tab click.
Evaluate(c, outcome) ==
    /\ pc[c] \in {"scroll", "click"}
    /\ IF localBrowser[c] \notin alive
          THEN /\ Fail(c, "session disconnected")
               /\ UNCHANGED tabs
          ELSE /\ tabs' = Touch(c)
               /\ IF outcome = "ok"
                     THEN /\ pc' = [pc EXCEPT ![c] =
                                       IF pc[c] = "scroll" THEN "click" ELSE "waitForSelector"]
                          /\ UNCHANGED <<result, log>>
                     ELSE Fail(c, "evaluate failed")
    /\ UNCHANGED <<browser, nLaunched, alive, type, localBrowser, page, html>>
    /\ UNCHANGED <<extractVars, apiVars>>

\* The inner try/catch around page.waitForSelector: which rejections of the
\* wait are swallowed (catch (e) {} swallows every one of them).
WaitCaught_Mutant(outcome) == outcome # "timeout"

WaitCaught(outcome) == TRUE

\* page.waitForSelector(..., {timeout: 8000}) inside its own try/catch.
WaitForSelector(c, outcome) ==
    /\ pc[c] = "waitForSelector"
    /\ LET o == IF localBrowser[c] \in alive THEN outcome ELSE "session disconnected"
       IN  /\ tabs' = IF localBrowser[c] \in alive THEN Touch(c) ELSE tabs
           /\ IF o = "found" \/ WaitCaught(o)
                 THEN /\ pc' = [pc EXCEPT ![c] = "content"]
                      /\ log' = [log EXCEPT ![c].waitTimedOut = (o = "timeout")]
                      /\ UNCHANGED result
                 ELSE /\ result' = [result EXCEPT ![c] = Thrown(o)]
                      /\ pc' = [pc EXCEPT ![c] = "done"]
                      /\ log' = [log EXCEPT ![c].waitTimedOut = (o = "timeout"),
                                            ![c].failure = o]
    /\ UNCHANGED <<browser, nLaunched, alive, type, localBrowser, page, html>>
    /\ UNCHANGED <<extractVars, apiVars>>

\* html = await page.content().
Content(c) ==
    /\ pc[c] = "content"
    /\ IF localBrowser[c] \in alive
          THEN /\ tabs' = Touch(c)
               /\ html' = [html EXCEPT ![c] = TRUE]
               /\ pc' = [pc EXCEPT ![c] = "close"]
               /\ UNCHANGED <<result, log>>
          ELSE /\ Fail(c, "session disconnected")
               /\ UNCHANGED <<tabs, html>>
    /\ UNCHANGED <<browser, nLaunched, alive, type, localBrowser, page>>
    /\ UNCHANGED <<extractVars, apiVars>>

\* await page.close(), then cheerio.load, extractMetadata and return.
Close(c) ==
    /\ pc[c] = "close"
    /\ IF localBrowser[c] \in alive
          THEN /\ tabs' = [Touch(c) EXCEPT ![page[c]].state = "closed"]
               /\ result' = [result EXCEPT ![c] = Returned]
               /\ pc' = [pc EXCEPT ![c] = "done"]
               /\ UNCHANGED log
          ELSE /\ Fail(c, "session disconnected")
               /\ UNCHANGED tabs
    /\ UNCHANGED <<browser, nLaunched, alive, type, localBrowser, page, html>>
    /\ UNCHANGED <<extractVars, apiVars>>

\* fetchStaticHtml: the request emits 'error' before any response; reject.
RequestError(c) ==
    /\ pc[c] = "fetch"
    /\ Fail(c, "request error")
    /\ UNCHANGED <<browser, nLaunched, alive, tabs, type, localBrowser, page, html>>
    /\ UNCHANGED <<extractVars, apiVars>>

\* fetchStaticHtml: the response emits 'end'; resolve(data), then extraction.
ResponseEnd(c) ==
    /\ pc[c] = "fetch"
    /\ html' = [html EXCEPT ![c] = TRUE]
    /\ result' = [result EXCEPT ![c] = Returned]
    /\ pc' = [pc EXCEPT ![c] = "done"]
    /\ UNCHANGED <<browser, nLaunched, alive, tabs, type, localBrowser, page, log>>
    /\ UNCHANGED <<extractVars, apiVars>>

\* fetchStaticHtml: the response stream is aborted after it has started. Only
\* 'data' and 'end' are listened to on res, so neither resolve nor reject runs.
ResponseAborted(c) ==
    /\ pc[c] = "fetch"
    /\ pc' = [pc EXCEPT ![c] = "pending"]
    /\ log' = [log EXCEPT ![c].failure = "response aborted"]
    /\ UNCHANGED <<browser, nLaunched, alive, tabs, type, localBrowser, page, html, result>>
    /\ UNCHANGED <<extractVars, apiVars>>

\* The environment: a session's browser process exits or its connection drops;
\* its tabs go with it.
Disconnect(s) ==
    /\ s \in alive
    /\ alive' = alive \ {s}
    /\ tabs' = [i \in DOMAIN tabs |->
                  IF tabs[i].session = s /\ tabs[i].state = "open"
                     THEN [tabs[i] EXCEPT !.state = "gone"]
                     ELSE tabs[i]]
    /\ UNCHANGED <<browser, nLaunched, type, pc, localBrowser, page, html, result, log>>
    /\ UNCHANGED <<extractVars, apiVars>>

(***************************************************************************)
(* The request handlers of the server (app.get('/api/...')).               *)
(***************************************************************************)

Endpoints == {"/api/article", "/api/breadcrumbs", "/api/faqs"}

NoRequest == [path |-> "none", status |-> 0]

InitApi == endpoint = [c \in Calls |-> NoRequest]

\* webScraper.scrapeUrl called by other code than the request handlers.
DirectCall(c, arg) ==
    /\ endpoint[c] = NoRequest
    /\ ScrapeUrl(c, arg)
    /\ UNCHANGED apiVars

\* A GET request to the endpoint ep runs its handler to the first await: the
\* response is 400 without a url parameter; otherwise the handler calls
\* webScraper.scrapeUrl(url), with no type argument, and waits for it.
ApiRequest(c, ep, hasUrl) ==
    /\ endpoint[c] = NoRequest
    /\ pc[c] = "idle"
    /\ endpoint' = [endpoint EXCEPT ![c] = [path |-> ep,
                                            status |-> IF hasUrl THEN 0 ELSE 400]]
    /\ IF hasUrl
          THEN ScrapeUrl(c, "undefined")
          ELSE UNCHANGED <<sessionVars, extractVars>>

(***************************************************************************)
(* Text.  A string is a sequence of character codes; a value read out of   *)
(* parsed JSON is tagged with its JavaScript type.                         *)
(***************************************************************************)

\* String.prototype.toLowerCase on the ASCII letters.
ToLowerCase_Mutant(s) == s

ToLowerCase(s) == [i \in DOMAIN s |-> IF s[i] \in 65 .. 90 THEN s[i] + 32 ELSE s[i]]

\* The white space String.prototype.trim and the regex class \s remove.
IsSpace(ch) == ch \in {9, 10, 32}

RECURSIVE TrimStart(_)
TrimStart(s) == IF s # <<>> /\ IsSpace(Head(s)) THEN TrimStart(Tail(s)) ELSE s

RECURSIVE TrimEnd(_)
TrimEnd(s) ==
    IF s # <<>> /\ IsSpace(s[Len(s)]) THEN TrimEnd(SubSeq(s, 1, Len(s) - 1)) ELSE s

\* String.prototype.trim.
Trim(s) == TrimEnd(TrimStart(s))

Str(s) == [t |-> "str", v |-> s]

Num(n) == [t |-> "num", v |-> <<n>>]

Undefined == [t |-> "undefined", v |-> <<>>]

\* JavaScript truthiness of a JSON value.
Truthy(j) ==
    \/ j.t = "str" /\ j.v # <<>>
    \/ j.t = "num" /\ j.v # <<0>>

\* a || b on JSON values.
OrElse(a, b) == IF Truthy(a) THEN a ELSE b

(***************************************************************************)
(* extractFaqs.  A document is what the five methods' selectors find in    *)
(* it: the microdata question items, the JSON-LD scripts, and the          *)
(* heading/answer pairs of methods 3, 4 and 5, each with its raw text.     *)
(***************************************************************************)

\* uniqueFaqs.slice(0, 20).
FaqLimit == 20

EmptyFaqDoc == [micro |-> <<>>, scripts |-> <<>>, m3 |-> <<>>, m4 |-> <<>>, m5 |-> <<>>]

\* if (question && answer) faqs.push({question, answer}) on trimmed text.
PushTrimmed(faqs, q, a) ==
    IF Trim(q) # <<>> /\ Trim(a) # <<>>
       THEN Append(faqs, [question |-> Str(Trim(q)), answer |-> Str(Trim(a))])
       ELSE faqs

\* The .each loops of methods 1, 3, 4 and 5 over the pairs their selectors find.
RECURSIVE EachPair(_, _)
EachPair(pairs, faqs) ==
    IF pairs = <<>> THEN faqs
    ELSE EachPair(Tail(pairs), PushTrimmed(faqs, Head(pairs).q, Head(pairs).a))

\* data.mainEntity.forEach(item => ...): a null item throws out of the loop,
\* the pairs pushed before it stay in faqs.
RECURSIVE ForEachItem(_, _)
ForEachItem(items, faqs) ==
    IF items = <<>> THEN [faqs |-> faqs, threw |-> FALSE]
    ELSE LET item == Head(items)
             answer == OrElse(item.text, OrElse(item.aname, Str(<<>>)))
         IN  IF item.kind = "null" THEN [faqs |-> faqs, threw |-> TRUE]
             ELSE IF /\ item.kind = "Question"
                     /\ Truthy(item.name)
                     /\ item.accepted
                     /\ Truthy(answer)
                     THEN ForEachItem(Tail(items),
                                      Append(faqs, [question |-> item.name, answer |-> answer]))
                     ELSE ForEachItem(Tail(items), faqs)

\* The body of the try block of method 2 for one script element.
JsonLdScript(script, faqs) ==
    IF ~script.parses THEN [faqs |-> faqs, threw |-> TRUE]
    ELSE IF script.type = "null" THEN [faqs |-> faqs, threw |-> TRUE]
    ELSE IF script.type = "FAQPage" /\ script.mainEntity # "undefined"
            THEN IF script.mainEntity = "list"
                    THEN ForEachItem(script.items, faqs)
                    ELSE [faqs |-> faqs, threw |-> TRUE]
            ELSE [faqs |-> faqs, threw |-> FALSE]

\* Method 2: every script in turn, its exceptions swallowed by catch (e) {}.
RECURSIVE JsonLd(_, _)
JsonLd(scripts, acc) ==
    IF scripts = <<>> THEN acc
    ELSE LET r == JsonLdScript(Head(scripts), acc.faqs)
         IN  JsonLd(Tail(scripts),
                    [faqs |-> r.faqs, ignored |-> acc.ignored + (IF r.threw THEN 1 ELSE 0)])

\* The gate of methods 3, 4 and 5: if (faqs.length === 0).
Gate_Mutant(faqs, pairs) == EachPair(pairs, faqs)

Gate(faqs, pairs) == IF Len(faqs) = 0 THEN EachPair(pairs, faqs) ELSE faqs

\* Methods 1 to 5 in order: the accumulated faqs and the ignored exceptions.
Accumulate(doc) ==
    LET m12 == JsonLd(doc.scripts, [faqs |-> EachPair(doc.micro, <<>>), ignored |-> 0])
    IN  [faqs |-> Gate(Gate(Gate(m12.faqs, doc.m3), doc.m4), doc.m5),
         ignored |-> m12.ignored]

\* The key deduplication compares: f.question.toLowerCase().
QuestionKey(f) == ToLowerCase(f.question.v)

\* self.findIndex(f => f.question.toLowerCase() === faq.question.toLowerCase())
\* from index j on: the index found, 0 for none, -1 when toLowerCase is not a
\* function of one of the two questions.
RECURSIVE FindIndex(_, _, _)
FindIndex(self, faq, j) ==
    IF j > Len(self) THEN 0
    ELSE IF self[j].question.t # "str" \/ faq.question.t # "str" THEN -1
    ELSE IF QuestionKey(self[j]) = QuestionKey(faq) THEN j
    ELSE FindIndex(self, faq, j + 1)

\* faqs.filter((faq, index, self) => index === self.findIndex(...)): the
\* filter throws when one of its callbacks does.
FilterFirst(self) ==
    LET found == [i \in DOMAIN self |->
                    [faq |-> self[i], index |-> i, k |-> FindIndex(self, self[i], 1)]]
        kept == SelectSeq(found, LAMBDA e : e.k = e.index)
    IN  IF \E i \in DOMAIN found : found[i].k = -1
           THEN [faqs |-> <<>>, threw |-> TRUE]
           ELSE [faqs |-> [n \in DOMAIN kept |-> kept[n].faq], threw |-> FALSE]

\* uniqueFaqs.slice(0, 20).
Slice(s, n) == SubSeq(s, 1, IF Len(s) < n THEN Len(s) ELSE n)

\* The try block of extractFaqs.
TryFaqs(doc) ==
    LET acc == Accumulate(doc)
        uniqueFaqs == FilterFirst(acc.faqs)
    IN  [faqs |-> IF uniqueFaqs.threw THEN <<>> ELSE Slice(uniqueFaqs.faqs, FaqLimit),
         threw |-> uniqueFaqs.threw,
         ignored |-> acc.ignored]

\* The catch block of extractFaqs: return [].
CatchFaqs_Mutant(r) ==
    [called |-> TRUE, raised |-> r.threw, caught |-> FALSE, ignored |-> r.ignored,
     faqs |-> r.faqs]

CatchFaqs(r) ==
    [called |-> TRUE, raised |-> FALSE, caught |-> r.threw, ignored |-> r.ignored,
     faqs |-> IF r.threw THEN <<>> ELSE r.faqs]

extractFaqs(doc) == CatchFaqs(TryFaqs(doc))

NotRun == [called |-> FALSE, raised |-> FALSE, caught |-> FALSE, ignored |-> 0,
           faqs |-> <<>>]

(***************************************************************************)
(* The documents extractFaqs is applied to.                                *)
(***************************************************************************)

\* The most elements (microdata items, scripts, heading pairs) in a document.
MaxElements == 2

\* The longest mainEntity list of a generated JSON-LD script.
MaxItems == 22

Question(name, text) ==
    [kind |-> "Question", name |-> name, accepted |-> TRUE, text |-> text,
     aname |-> Undefined]

NullItem ==
    [kind |-> "null", name |-> Undefined, accepted |-> FALSE, text |-> Undefined,
     aname |-> Undefined]

FaqPage(items) ==
    [parses |-> TRUE, type |-> "FAQPage", mainEntity |-> "list", items |-> items]

\* A FAQPage of n questions named by the letters a, B, c, D, ... in turn,
\* starting over after `letters` of them (a, b, C, d, ... on the second round
\* when `letters` is odd).
Lettered(n, letters) ==
    FaqPage([i \in 1 .. n |->
               Question(Str(<<(IF i % 2 = 1 THEN 96 ELSE 64) + ((i - 1) % letters) + 1>>),
                        Str(<<48 + (i % 10)>>))])

TextPairs ==
    { [q |-> <<32, 97>>, a |-> <<120>>],
      [q |-> <<65>>, a |-> <<121, 32>>],
      [q |-> <<32>>, a |-> <<120>>],
      [q |-> <<98>>, a |-> <<>>] }

Scripts ==
    { [parses |-> FALSE, type |-> "null", mainEntity |-> "undefined", items |-> <<>>],
      [parses |-> TRUE, type |-> "null", mainEntity |-> "undefined", items |-> <<>>],
      [parses |-> TRUE, type |-> "FAQPage", mainEntity |-> "object", items |-> <<>>],
      [parses |-> TRUE, type |-> "FAQPage", mainEntity |-> "undefined", items |-> <<>>],
      [parses |-> TRUE, type |-> "Article", mainEntity |-> "list",
       items |-> <<Question(Str(<<99>>), Str(<<120>>))>>],
      FaqPage(<<Question(Str(<<97>>), Str(<<122>>))>>),
      FaqPage(<<Question(Num(5), Str(<<120>>))>>),
      FaqPage(<<Question(Str(<<98>>), Str(<<120>>)), NullItem,
                Question(Str(<<99>>), Str(<<120>>))>>),
      FaqPage(<<[Question(Str(<<99>>), Undefined) EXCEPT !.aname = Str(<<110>>)],
                [Question(Str(<<100>>), Str(<<120>>)) EXCEPT !.accepted = FALSE],
                [Question(Str(<<101>>), Str(<<120>>)) EXCEPT !.kind = "Answer"],
                Question(Str(<<67>>), Num(7))>>) }
    \cup { Lettered(n, n) : n \in (MaxItems - 2) .. MaxItems }
    \cup { Lettered(MaxItems, MaxItems - 1) }

FaqElements(doc) ==
    Len(doc.micro) + Len(doc.scripts) + Len(doc.m3) + Len(doc.m4) + Len(doc.m5)

\* A document holds at most one of the long generated scripts.
LongScript(e) == Len(e.items) > MaxItems - 3

Fits(doc, field, e) ==
    /\ FaqElements(doc) < MaxElements
    /\ field = "scripts" /\ LongScript(e) =>
          \A i \in DOMAIN doc.scripts : ~LongScript(doc.scripts[i])

InitFaqs ==
    /\ faqDoc = EmptyFaqDoc
    /\ faqsOut = NotRun

\* The page gains an element one of the methods' selectors matches.
AddFaqElement(field, e) ==
    /\ ~faqsOut.called
    /\ Fits(faqDoc, field, e)
    /\ faqDoc' = [faqDoc EXCEPT ![field] = Append(@, e)]
    /\ UNCHANGED <<faqsOut, sessionVars, crumbVars, bodyVars, slashVars, apiVars, scrollVars, dateVars>>

\* const faqs = this.extractFaqs($).
ExtractFaqs ==
    /\ ~faqsOut.called
    /\ faqsOut' = extractFaqs(faqDoc)
    /\ UNCHANGED <<faqDoc, sessionVars, crumbVars, bodyVars, slashVars, apiVars, scrollVars, dateVars>>

(***************************************************************************)
(* URLs.  A URL string is a sequence of character codes, parsed as the     *)
(* WHATWG URL class parses it (without percent-encoding and dot segments). *)
(***************************************************************************)

\* The character codes the URL parser looks for.
Ch == [slash |-> 47, query |-> 63, hash |-> 35, colon |-> 58, hyphen |-> 45,
       space |-> 32]

\* "http": the special scheme of the modelled URLs.
Http == <<104, 116, 116, 112>>

IsLetter(ch) == ch \in 65 .. 90 \/ ch \in 97 .. 122

\* The regex class \w.
IsWord(ch) == IsLetter(ch) \/ ch \in 48 .. 57 \/ ch = 95

\* The element of a one-element set.  An operator below that reads a value
\* many times binds it once, as { e(x) : x \in {value} }, and takes the result
\* out with Only.
Only(S) == CHOOSE x \in S : TRUE

\* The index of the first character of str in set, Len(str) + 1 when there is
\* none.
IndexOfAny(str, set) ==
    Only({ IF \E i \in DOMAIN s : s[i] \in set
              THEN CHOOSE i \in DOMAIN s : s[i] \in set /\ \A j \in 1 .. i - 1 : s[j] \notin set
              ELSE Len(s) + 1 : s \in {str} })

\* s.endsWith('/').
EndsWithSlash(s) == \E t \in {s} : t # <<>> /\ t[Len(t)] = Ch.slash

\* The part of s from index i on.
From(s, i) == Only({ SubSeq(t, i, Len(t)) : t \in {s} })

\* The length of the scheme of an absolute URL string, 0 for a relative one.
SchemeLen(str) ==
    Only({ IF k <= Len(u) /\ k > 1 /\ u[k] = Ch.colon /\ \A i \in 1 .. k - 1 : IsLetter(u[i])
              THEN k - 1
              ELSE 0 :
           <<u, k>> \in { <<v, IndexOfAny(v, {Ch.colon, Ch.slash, Ch.query, Ch.hash})>> :
                             v \in {str} } })

\* Path, query and fragment of the text after the authority (or of a relative
\* reference): search and hash keep their leading ? and #.
SplitPath(s) ==
    Only({ [pathname |-> SubSeq(t, 1, q - 1),
            search |-> SubSeq(t, q, h - 1),
            hash |-> From(t, h)] :
           <<t, h, q>> \in { <<v, i, IndexOfAny(SubSeq(v, 1, i - 1), {Ch.query})>> :
                                <<v, i>> \in { <<w, IndexOfAny(w, {Ch.hash})>> : w \in {s} } } })

InvalidUrl ==
    [ok |-> FALSE, scheme |-> <<>>, host |-> <<>>, pathname |-> <<>>, search |-> <<>>,
     hash |-> <<>>]

\* The text after "scheme:" without the two slashes that open the authority.
AfterSlashes(rest) ==
    Only({ IF Len(r) >= 2 /\ r[1] = Ch.slash /\ r[2] = Ch.slash THEN From(r, 3) ELSE r :
           r \in {rest} })

\* The URL record of "http:" followed by rest: invalid when the host is empty.
ParseSpecial(rest) ==
    Only({ IF e = 1 THEN InvalidUrl
           ELSE [ok |-> TRUE, scheme |-> Http, host |-> SubSeq(a, 1, e - 1),
                 pathname |-> IF p.pathname = <<>> THEN <<Ch.slash>> ELSE p.pathname,
                 search |-> p.search, hash |-> p.hash] :
           <<a, e, p>> \in { <<b, i, SplitPath(From(b, i))>> :
                                <<b, i>> \in { <<c, IndexOfAny(c, {Ch.slash, Ch.query, Ch.hash})>> :
                                                  c \in {AfterSlashes(rest)} } } })

\* The URL record of a scheme that is not special, followed by rest.
ParseOpaque(scheme, rest) ==
    Only({ [ok |-> TRUE, scheme |-> scheme, host |-> <<>>,
            pathname |-> p.pathname, search |-> p.search, hash |-> p.hash] :
           p \in {SplitPath(rest)} })

\* new URL(u) for a URL string: invalid without a scheme.
ParseAbsolute(u) ==
    Only({ IF n = 0 THEN InvalidUrl
           ELSE IF SubSeq(v, 1, n) = Http THEN ParseSpecial(From(v, n + 2))
           ELSE ParseOpaque(SubSeq(v, 1, n), From(v, n + 2)) :
           <<v, n>> \in { <<w, SchemeLen(w)>> : w \in {u} } })

\* The directory of a path: the path up to and including its last slash.
Directory(path) ==
    Only({ IF \E i \in DOMAIN p : p[i] = Ch.slash
              THEN SubSeq(p, 1, CHOOSE i \in DOMAIN p :
                                   p[i] = Ch.slash /\ \A j \in i + 1 .. Len(p) : p[j] # Ch.slash)
              ELSE <<Ch.slash>> :
           p \in {path} })

\* new URL(u, base) for a relative reference u.
Resolve(u, base) ==
    Only({ IF ~b.ok \/ b.scheme # Http THEN InvalidUrl
           ELSE IF v = <<>> THEN [b EXCEPT !.hash = <<>>]
           ELSE IF v[1] = Ch.slash
                   THEN [b EXCEPT !.pathname = p.pathname, !.search = p.search,
                                  !.hash = p.hash]
           ELSE IF v[1] = Ch.query THEN [b EXCEPT !.search = p.search, !.hash = p.hash]
           ELSE IF v[1] = Ch.hash THEN [b EXCEPT !.hash = p.hash]
           ELSE [b EXCEPT !.pathname = Directory(b.pathname) \o p.pathname,
                          !.search = p.search, !.hash = p.hash] :
           <<v, b, p>> \in { <<w, ParseAbsolute(base), SplitPath(w)>> : w \in {u} } })

\* new URL(u, base): ok is false where the constructor throws.
ParseUrl(u, base) ==
    Only({ IF n > 0 THEN ParseAbsolute(v) ELSE Resolve(v, base) :
           <<v, n>> \in { <<w, SchemeLen(w)>> : w \in {u} } })

\* urlObj.protocol + '//' + urlObj.host.
ProtocolHost(o) == o.scheme \o <<Ch.colon, Ch.slash, Ch.slash>> \o o.host

\* urlObj.origin: "null" for a scheme that is not special.
Origin(o) == IF o.scheme = Http THEN ProtocolHost(o) ELSE <<110, 117, 108, 108>>

\* urlObj.search and urlObj.hash: empty for an empty query or fragment.
Search(o) == IF Len(o.search) <= 1 THEN <<>> ELSE o.search

Hash(o) == IF Len(o.hash) <= 1 THEN <<>> ELSE o.hash

\* urlObj.href.
Href(o) ==
    (IF o.scheme = Http THEN ProtocolHost(o) ELSE o.scheme \o <<Ch.colon>>)
        \o o.pathname \o o.search \o o.hash

\* makeAbsoluteUrl: try { return new URL(url, baseUrl).href } catch { return url }.
makeAbsoluteUrl(url, baseUrl) ==
    Only({ IF o.ok THEN Href(o) ELSE v :
           <<v, o>> \in { <<w, ParseUrl(w, baseUrl)>> : w \in {url} } })

\* base + search + hash, base having got its trailing slash.
WithSlash(base, urlObj) ==
    Only({ (IF EndsWithSlash(b) THEN b ELSE b \o <<Ch.slash>>)
              \o Search(urlObj) \o Hash(urlObj) :
           b \in {base} })

\* ensureTrailingSlash of extractBreadcrumbs; threw where new URL(u, url) throws.
ensureTrailingSlash(u, url) ==
    Only({ IF EndsWithSlash(v) THEN [threw |-> FALSE, url |-> v]
           ELSE Only({ IF ~urlObj.ok THEN [threw |-> TRUE, url |-> v]
                       ELSE [threw |-> FALSE,
                             url |-> WithSlash(Origin(urlObj) \o urlObj.pathname, urlObj)] :
                       urlObj \in {ParseUrl(v, url)} }) :
           v \in {u} })

(***************************************************************************)
(* extractBreadcrumbs.  A document is, for each of the four breadcrumb     *)
(* selectors, the links it matches, with their raw text and href.          *)
(***************************************************************************)

\* The body of the elements.each callback for the element el of 0-based index:
\* the list acc after it, threw set where ensureTrailingSlash throws.
LinkStep(el, index, url, acc) ==
    Only({ IF text # <<>> /\ el.hasHref /\ el.href # <<>>
              THEN Only({ IF absoluteUrl.threw THEN [acc EXCEPT !.threw = TRUE]
                          ELSE [acc EXCEPT !.list = Append(@,
                                   [name |-> text, url |-> absoluteUrl.url,
                                    position |-> index + 1])] :
                          absoluteUrl \in
                              {ensureTrailingSlash(makeAbsoluteUrl(el.href, url), url)} })
              ELSE acc :
           text \in {Trim(el.text)} })

\* elements.each((index, element) => ...) from the element of 0-based index on.
RECURSIVE EachLink(_, _, _, _)
EachLink(elements, index, url, acc) ==
    IF index >= Len(elements) \/ acc.threw THEN acc
    ELSE Only({ EachLink(elements, i + 1, url, next) :
                <<i, next>> \in { <<j, LinkStep(elements[j + 1], j, url, acc)>> :
                                     j \in {index} } })

\* The index of the first selector with a match, 0 when none matches.
FirstMatching_Mutant(sel) == 0

FirstMatching(sel) ==
    IF \E k \in DOMAIN sel : Len(sel[k]) > 0
       THEN CHOOSE k \in DOMAIN sel : Len(sel[k]) > 0 /\ \A j \in 1 .. k - 1 : Len(sel[j]) = 0
       ELSE 0

\* urlObj.pathname.split('/').filter(s => s.length > 0).
RECURSIVE PathSegments(_)
PathSegments(path) ==
    IF path = <<>> THEN <<>>
    ELSE Only({ IF k = 1 THEN rest ELSE <<SubSeq(p, 1, k - 1)>> \o rest :
                <<p, k, rest>> \in { <<q, i, PathSegments(From(q, i + 1))>> :
                                        <<q, i>> \in { <<r, IndexOfAny(r, {Ch.slash})>> :
                                                          r \in {path} } } })

\* segment.replace(/-/g, ' ').
Spaced(segment) ==
    [i \in DOMAIN segment |-> IF segment[i] = Ch.hyphen THEN Ch.space ELSE segment[i]]

\* segment.replace(/-/g, ' ').replace(/\b\w/g, l => l.toUpperCase()).
SegmentName(segment) ==
    Only({ [i \in DOMAIN spaced |->
              IF /\ IsWord(spaced[i])
                 /\ (i = 1 \/ ~IsWord(spaced[i - 1]))
                 /\ spaced[i] \in 97 .. 122
                 THEN spaced[i] - 32
                 ELSE spaced[i]] :
           spaced \in {Spaced(segment)} })

\* The body of the pathSegments.forEach callback for the segment of 0-based
\* index, path being currentPath after its update.
SegmentStep(segment, index, urlObj, url, path, acc) ==
    Only({ IF urlPath.threw THEN [acc EXCEPT !.threw = TRUE]
           ELSE [acc EXCEPT !.list = Append(@,
                    [name |-> SegmentName(segment), url |-> urlPath.url,
                     position |-> index + 2])] :
           urlPath \in {ensureTrailingSlash(ProtocolHost(urlObj) \o path, url)} })

\* pathSegments.forEach((segment, index) => ...) from the 0-based index on.
RECURSIVE EachSegment(_, _, _, _, _, _)
EachSegment(segments, index, urlObj, url, currentPath, acc) ==
    IF index >= Len(segments) \/ acc.threw THEN acc
    ELSE Only({ EachSegment(segments, i + 1, urlObj, url, path, next) :
                <<i, path, next>> \in
                    { <<j, p, SegmentStep(segments[j + 1], j, urlObj, url, p, acc)>> :
                         <<j, p>> \in { <<index, currentPath \o <<Ch.slash>>
                                                    \o segments[index + 1]>> } } })

\* The URL-path fallback of extractBreadcrumbs: Home, then one entry a segment.
FromPath(urlObj, url) ==
    IF ~urlObj.ok THEN [threw |-> TRUE, list |-> <<>>]
    ELSE Only({ IF home.threw THEN [threw |-> TRUE, list |-> <<>>]
                ELSE EachSegment(segments, 0, urlObj, url, <<>>,
                        [threw |-> FALSE,
                         list |-> << [name |-> <<72, 111, 109, 101>>, url |-> home.url,
                                      position |-> 1] >>]) :
                <<segments, home>> \in
                    { <<PathSegments(urlObj.pathname),
                        ensureTrailingSlash(ProtocolHost(urlObj), url)>> } })

\* extractBreadcrumbs($, url).
extractBreadcrumbs(doc, url) ==
    Only({ IF k # 0 THEN EachLink(doc[k], 0, url, [threw |-> FALSE, list |-> <<>>])
           ELSE Only({ FromPath(urlObj, url) : urlObj \in {ParseAbsolute(url)} }) :
           k \in {FirstMatching(doc)} })

(***************************************************************************)
(* The documents and page URLs extractBreadcrumbs is applied to.           *)
(***************************************************************************)

\* The most links a document's breadcrumb selectors match in all.
MaxLinks == 2

\* The number of breadcrumbSelectors.
NumSelectors == 4

\* http://e
Site == Http \o <<58, 47, 47, 101>>

PageUrls ==
    { Site,
      Site \o <<47>>,
      Site \o <<47, 97, 47, 98, 45, 99>>,
      Site \o <<47, 97, 47, 47, 98, 47>>,
      Site \o <<47, 97, 63, 113, 35, 102>> }

Links ==
    { [text |-> <<72>>, hasHref |-> TRUE, href |-> <<47>>],
      [text |-> <<32, 88, 32>>, hasHref |-> TRUE, href |-> <<47, 120>>],
      [text |-> <<89>>, hasHref |-> TRUE, href |-> <<121, 63, 113, 35, 102>>],
      [text |-> <<32>>, hasHref |-> TRUE, href |-> <<47, 122>>],
      [text |-> <<87>>, hasHref |-> FALSE, href |-> <<>>],
      [text |-> <<77>>, hasHref |-> TRUE, href |-> <<109, 58, 117>>],
      [text |-> <<66>>, hasHref |-> TRUE, href |-> Http \o <<58, 47, 47, 63, 120>>] }

NoCrumbs == [called |-> FALSE, threw |-> FALSE, list |-> <<>>]

InitCrumbs ==
    /\ crumbDoc = [k \in 1 .. NumSelectors |-> <<>>]
    /\ crumbUrl = Site
    /\ crumbsOut = NoCrumbs

\* The page scraped is the one at url.
OpenPage(url) ==
    /\ ~crumbsOut.called
    /\ \A k \in DOMAIN crumbDoc : crumbDoc[k] = <<>>
    /\ crumbUrl' = url
    /\ UNCHANGED <<crumbDoc, crumbsOut, sessionVars, faqVars, bodyVars, slashVars, apiVars, scrollVars, dateVars>>

\* The page gains a link the k-th breadcrumb selector matches.
AddLink(k, link) ==
    /\ ~crumbsOut.called
    /\ Len(crumbDoc[1]) + Len(crumbDoc[2]) + Len(crumbDoc[3]) + Len(crumbDoc[4]) < MaxLinks
    /\ crumbDoc' = [crumbDoc EXCEPT ![k] = Append(@, link)]
    /\ UNCHANGED <<crumbUrl, crumbsOut, sessionVars, faqVars, bodyVars, slashVars, apiVars, scrollVars, dateVars>>

\* const breadcrumbs = this.extractBreadcrumbs($, url).
ExtractBreadcrumbs ==
    /\ ~crumbsOut.called
    /\ crumbsOut' = [called |-> TRUE] @@ extractBreadcrumbs(crumbDoc, crumbUrl)
    /\ UNCHANGED <<crumbDoc, crumbUrl, sessionVars, faqVars, bodyVars, slashVars, apiVars, scrollVars, dateVars>>

(***************************************************************************)
(* extractArticleBody.  A text is the sequence of its runs: a run is n     *)
(* whitespace characters or n characters that are not whitespace, and      *)
(* adjacent runs differ in kind.                                           *)
(***************************************************************************)

Run(ws, n) == [ws |-> ws, n |-> n]

\* A text of n characters without whitespace.
Word(n) == <<Run(FALSE, n)>>

\* A text of n whitespace characters.
Blank(n) == <<Run(TRUE, n)>>

\* text.length.
RECURSIVE TextLength(_)
TextLength(t) == IF t = <<>> THEN 0 ELSE t[1].n + TextLength(Tail(t))

\* a + b.
JoinText(a, b) ==
    Only({ IF x = <<>> THEN y
           ELSE IF y = <<>> THEN x
           ELSE IF x[Len(x)].ws = y[1].ws
                   THEN SubSeq(x, 1, Len(x) - 1)
                           \o <<Run(y[1].ws, x[Len(x)].n + y[1].n)>> \o Tail(y)
           ELSE x \o y :
           <<x, y>> \in {<<a, b>>} })

\* text.trim().
TrimText(t) ==
    Only({ SubSeq(x, IF x # <<>> /\ x[1].ws THEN 2 ELSE 1,
                     IF x # <<>> /\ x[Len(x)].ws THEN Len(x) - 1 ELSE Len(x)) :
           x \in {t} })

\* text.replace(/\s+/g, ' ').
Collapse(t) ==
    Only({ [i \in DOMAIN x |-> IF x[i].ws THEN Run(TRUE, 1) ELSE x[i]] : x \in {t} })

\* The elements the content selectors look for paragraphs in: 'article p',
\* '.post-content p', '.entry-content p', '.article-content p', '.content p',
\* 'main p'.
contentSelectors ==
    << "article", ".post-content", ".entry-content", ".article-content", ".content", "main" >>

containerSelectors ==
    << "[property=\"articleBody\"]", ".article-body", ".post-body", ".entry-body",
       ".article-content", ".post-content", ".entry-content", ".content-area",
       ".main-content", "article", ".content", "main" >>

\* The body of the paragraphs.each callback: combinedText after elem.
ParagraphStep(elem, combinedText) ==
    Only({ IF TextLength(text) > 20
              THEN JoinText(JoinText(combinedText, text), Blank(1))
              ELSE combinedText :
           text \in {TrimText(elem.text)} })

\* paragraphs.each((index, elem) => ...) from the 0-based index on.
RECURSIVE EachParagraph(_, _, _)
EachParagraph(paragraphs, index, combinedText) ==
    IF index >= Len(paragraphs) THEN combinedText
    ELSE Only({ EachParagraph(paragraphs, i + 1, next) :
                <<i, next>> \in { <<j, ParagraphStep(paragraphs[j + 1], combinedText)>> :
                                     j \in {index} } })

\* $(selector) for a content selector: the p elements inside the element.
Paragraphs(doc, selector) ==
    SelectSeq(doc[selector].children, LAMBDA node : node.kind = "p")

\* The body of the loop over contentSelectors: fullText after selector.
ContentStep(doc, selector, fullText) ==
    Only({ IF Len(paragraphs) > 5
              THEN Only({ IF TextLength(combinedText) > TextLength(fullText)
                             THEN combinedText
                             ELSE fullText :
                          combinedText \in {EachParagraph(paragraphs, 0, <<>>)} })
              ELSE fullText :
           paragraphs \in {Paragraphs(doc, selector)} })

\* for (const selector of contentSelectors) from the k-th selector on.
RECURSIVE EachContentSelector(_, _, _)
EachContentSelector(doc, k, fullText) ==
    IF k > Len(contentSelectors) THEN fullText
    ELSE Only({ EachContentSelector(doc, i + 1, next) :
                <<i, next>> \in { <<j, ContentStep(doc, contentSelectors[j], fullText)>> :
                                     j \in {k} } })

\* contentElement.text() once the unwanted elements are removed: the text of
\* the remaining nodes from the k-th on, in document order, after acc.
RECURSIVE ElementText(_, _, _)
ElementText(children, k, acc) ==
    IF k > Len(children) THEN acc
    ELSE Only({ ElementText(children, i + 1, next) :
                <<i, next>> \in { <<j, IF children[j].kind = "nav"
                                          THEN acc
                                          ELSE JoinText(acc, children[j].text)>> :
                                     j \in {k} } })

\* The body of the loop over containerSelectors: fullText after selector.
ContainerStep(doc, selector, fullText) ==
    IF doc[selector].present
       THEN Only({ IF TextLength(cleanContent) > TextLength(fullText)
                        /\ TextLength(cleanContent) > 200
                      THEN cleanContent
                      ELSE fullText :
                   cleanContent \in
                       {TrimText(Collapse(TrimText(
                           ElementText(doc[selector].children, 1, <<>>))))} })
       ELSE fullText

\* for (const selector of containerSelectors) from the k-th selector on.
RECURSIVE EachContainerSelector(_, _, _)
EachContainerSelector(doc, k, fullText) ==
    IF k > Len(containerSelectors) THEN fullText
    ELSE Only({ EachContainerSelector(doc, i + 1, next) :
                <<i, next>> \in { <<j, ContainerStep(doc, containerSelectors[j], fullText)>> :
                                     j \in {k} } })

\* The final test and clean-up of extractArticleBody on the chosen fullText.
ReturnBody(fullText) ==
    Only({ IF TextLength(t) > 200
              THEN [defined |-> TRUE, text |-> TrimText(Collapse(t))]
              ELSE [defined |-> FALSE, text |-> <<>>] :
           t \in {fullText} })

\* extractArticleBody($).
extractArticleBody(doc) ==
    Only({ ReturnBody(IF TextLength(fullText) < 500
                         THEN EachContainerSelector(doc, 1, fullText)
                         ELSE fullText) :
           fullText \in {EachContentSelector(doc, 1, <<>>)} })

(***************************************************************************)
(* The documents extractArticleBody is applied to: elements that do not    *)
(* nest, each holding paragraphs, bare text and navigation blocks.         *)
(***************************************************************************)

\* The most blocks of equal nodes a document is assembled from.
MaxBlocks == 2

\* The most nodes in one block.
MaxCopies == 6

\* The elements the documents may hold.
DocElements == {".article-body", "article", "main"}

\* A paragraph of two words around a long run of whitespace.
Gappy == <<Run(FALSE, 10), Run(TRUE, 40), Run(FALSE, 11)>>

\* A paragraph indented and ended by a newline.
Padded == <<Run(TRUE, 2), Run(FALSE, 33), Run(TRUE, 1)>>

Nodes ==
    { [kind |-> "p", text |-> t] :
         t \in {Word(20), Word(21), Word(30), Word(33), Word(100), Gappy, Padded} }
    \cup { [kind |-> "text", text |-> t] : t \in {Word(100), Blank(3)} }
    \cup { [kind |-> "nav", text |-> Word(100)] }

NoBody == [called |-> FALSE, defined |-> FALSE, text |-> <<>>]

RECURSIVE Copies(_, _)
Copies(node, n) == IF n = 0 THEN <<>> ELSE <<node>> \o Copies(node, n - 1)

InitBody ==
    /\ bodyDoc = [e \in {containerSelectors[k] : k \in DOMAIN containerSelectors} |->
                     [present |-> FALSE, children |-> <<>>]]
    /\ bodyBlocks = 0
    /\ bodyOut = NoBody

\* The page gains the element e, empty.
AddElement(e) ==
    /\ ~bodyOut.called
    /\ ~bodyDoc[e].present
    /\ bodyDoc' = [bodyDoc EXCEPT ![e].present = TRUE]
    /\ UNCHANGED <<bodyBlocks, bodyOut, sessionVars, faqVars, crumbVars, slashVars, apiVars, scrollVars, dateVars>>

\* The element e gains n more copies of node.
AddBlock(e, node, n) ==
    /\ ~bodyOut.called
    /\ bodyDoc[e].present
    /\ bodyBlocks < MaxBlocks
    /\ bodyDoc' = [bodyDoc EXCEPT ![e].children = @ \o Copies(node, n)]
    /\ bodyBlocks' = bodyBlocks + 1
    /\ UNCHANGED <<bodyOut, sessionVars, faqVars, crumbVars, slashVars, apiVars, scrollVars, dateVars>>

\* const articleBody = this.extractArticleBody($).
ExtractArticleBody ==
    /\ ~bodyOut.called
    /\ bodyOut' = [called |-> TRUE] @@ extractArticleBody(bodyDoc)
    /\ UNCHANGED <<bodyDoc, bodyBlocks, sessionVars, faqVars, crumbVars, slashVars, apiVars, scrollVars, dateVars>>

(***************************************************************************)
(* The two ensureTrailingSlash helpers applied, once and again, to         *)
(* absolute URLs of the site.                                              *)
(***************************************************************************)

\* The most characters of a URL after its host.
MaxSuffix == 4

\* The characters a URL is continued with: a, /, ? and #.
UrlChars == {97, Ch.slash, Ch.query, Ch.hash}

\* ensureTrailingSlash of generateBreadcrumbSchema: new URL(u) without a base,
\* and u + '/' where it throws.
schemaEnsureTrailingSlash(u) ==
    Only({ IF EndsWithSlash(v) THEN v
           ELSE Only({ IF ~urlObj.ok THEN v \o <<Ch.slash>>
                       ELSE WithSlash(Origin(urlObj) \o urlObj.pathname, urlObj) :
                       urlObj \in {ParseAbsolute(v)} }) :
           v \in {u} })

\* Both helpers applied to the URLs of r.
BothHelpers(r, url) ==
    [scraper |-> ensureTrailingSlash(r.scraper, url).url,
     schema |-> schemaEnsureTrailingSlash(r.schema)]

InitSlash ==
    /\ slashUrl = Site
    /\ slashOut = <<>>

\* The URL to canonicalize is one character longer.
AppendChar(ch) ==
    /\ slashOut = <<>>
    /\ Len(slashUrl) < Len(Site) + MaxSuffix
    /\ slashUrl' = Append(slashUrl, ch)
    /\ UNCHANGED <<slashOut, sessionVars, faqVars, crumbVars, bodyVars, apiVars, scrollVars, dateVars>>

\* absoluteUrl = ensureTrailingSlash(absoluteUrl), on the URL first and then
\* on the result.
Canonicalize ==
    /\ Len(slashOut) < 2
    /\ slashOut' = Append(slashOut,
                      BothHelpers(IF slashOut = <<>>
                                     THEN [scraper |-> slashUrl, schema |-> slashUrl]
                                     ELSE slashOut[Len(slashOut)],
                                  Site))
    /\ UNCHANGED <<slashUrl, sessionVars, faqVars, crumbVars, bodyVars, apiVars, scrollVars, dateVars>>

(***************************************************************************)
(* The scroll loop of a FAQ-mode scrape (the first page.evaluate).  The    *)
(* loop reads totalHeight and document.body.scrollHeight only to compare   *)
(* them, so the state keeps their difference: remaining is scrollHeight    *)
(* minus totalHeight.                                                      *)
(***************************************************************************)

\* const distance = 500.
distance == 500

\* The largest difference between the document height and the distance
\* scrolled that is followed.
MaxRemaining == 3000

\* The most times a lazy-loading page grows.
MaxLoads == 2

\* A page that never grows, one that loads more content a few times, and one
\* that loads more whenever it is scrolled.
PageKinds == {"static", "lazy", "endless"}

\* document.body.scrollHeight when the loop starts.
InitialHeights == {0, 400, 500, 1300, 2000}

\* The heights a page gains in one load.
Growths == {300, 500, 800}

InitScroll ==
    /\ pageKind = "static"
    /\ loadsLeft = 0
    /\ remaining = 0
    /\ timer = "none"

\* The evaluated function starts on a page of some kind and height:
\* totalHeight = 0 and setInterval(..., 200).
StartScroll(kind, height) ==
    /\ timer = "none"
    /\ pageKind' = kind
    /\ loadsLeft' = (IF kind = "lazy" THEN MaxLoads ELSE 0)
    /\ remaining' = height
    /\ timer' = "set"
    /\ UNCHANGED <<sessionVars, faqVars, crumbVars, bodyVars, slashVars, apiVars, dateVars>>

\* The setInterval callback: scroll by distance, add it to totalHeight, and
\* stop when totalHeight has reached the scrollHeight read at this tick.
Tick ==
    /\ timer = "set"
    /\ remaining' = remaining - distance
    /\ timer' = (IF remaining - distance <= 0 THEN "cleared" ELSE "set")
    /\ UNCHANGED <<pageKind, loadsLeft, sessionVars, faqVars, crumbVars, bodyVars, slashVars, apiVars, dateVars>>

\* The page loads more content: document.body.scrollHeight grows by g.
Grow(g) ==
    /\ timer = "set"
    /\ pageKind # "static"
    /\ pageKind = "lazy" => loadsLeft > 0
    /\ remaining + g <= MaxRemaining
    /\ remaining' = remaining + g
    /\ loadsLeft' = (IF pageKind = "lazy" THEN loadsLeft - 1 ELSE loadsLeft)
    /\ UNCHANGED <<pageKind, timer, sessionVars, faqVars, crumbVars, bodyVars, slashVars, apiVars, dateVars>>

(***************************************************************************)
(* extractDates and formatDate.  A date string is what new Date(s) makes   *)
(* of it: a calendar date (midnight UTC), a date and hour with a UTC       *)
(* offset, or text that does not parse; the empty string stands for a      *)
(* missing or empty attribute.  An ISO string is its UTC day and hour.     *)
(***************************************************************************)

\* The most date elements in a document.
MaxDateElements == 3

Null == [form |-> "null"]

EmptyString == [form |-> "empty"]

\* A date string such as "yesterday".
Unparsable == [form |-> "text"]

\* "2024-01-0<day>".
DateOnly(day) == [form |-> "date", day |-> day]

\* "2024-01-0<day>T0<hour>:00:00+0<offset>:00".
WithOffset(day, hour, offset) ==
    [form |-> "offset", day |-> day, hour |-> hour, offset |-> offset]

\* date.toISOString() of the UTC day and hour.
Iso(day, hour) == [form |-> "iso", day |-> day, hour |-> hour]

\* formatDate(dateStr): null for an invalid Date, else its ISO string in UTC.
formatDate(dateStr) ==
    IF dateStr.form = "date" THEN Iso(dateStr.day, 0)
    ELSE IF dateStr.form = "offset"
            THEN IF dateStr.hour >= dateStr.offset
                    THEN Iso(dateStr.day, dateStr.hour - dateStr.offset)
                    ELSE Iso(dateStr.day - 1, dateStr.hour - dateStr.offset + 24)
    ELSE Null

\* prop.includes('published_time') || prop.includes('datePublished').
IsPublished(prop) == prop \in {"article:published_time", "datePublished"}

\* prop.includes('modified_time') || prop.includes('dateModified').
IsModified(prop) == prop \in {"article:modified_time", "dateModified"}

\* The body of the dateElements.each callback: the two dates after el.
DateStep(el, dates) ==
    IF el.content # EmptyString
       THEN [datePublished |-> IF IsPublished(el.prop) THEN formatDate(el.content)
                                                       ELSE dates.datePublished,
             dateModified |-> IF IsModified(el.prop) THEN formatDate(el.content)
                                                     ELSE dates.dateModified]
       ELSE dates

\* dateElements.each((i, el) => ...) from the k-th element on.
RECURSIVE EachDateElement(_, _, _)
EachDateElement(elements, k, dates) ==
    IF k > Len(elements) THEN dates
    ELSE Only({ EachDateElement(elements, i + 1, next) :
                <<i, next>> \in { <<j, DateStep(elements[j], dates)>> : j \in {k} } })

\* extractDates($).
extractDates(doc) ==
    EachDateElement(doc, 1, [datePublished |-> Null, dateModified |-> Null])

\* The property or itemprop values the selector of extractDates matches.
DateProps == {"article:published_time", "article:modified_time", "datePublished", "dateModified"}

\* The content or datetime values of the elements.
DateStrings == {EmptyString, Unparsable, DateOnly(1), DateOnly(2), WithOffset(2, 1, 2)}

NoDates == [called |-> FALSE, datePublished |-> Null, dateModified |-> Null]

InitDates ==
    /\ dateDoc = <<>>
    /\ datesOut = NoDates

\* The page gains a date element after the others.
AddDateElement(prop, content) ==
    /\ ~datesOut.called
    /\ Len(dateDoc) < MaxDateElements
    /\ dateDoc' = Append(dateDoc, [prop |-> prop, content |-> content])
    /\ UNCHANGED <<datesOut, sessionVars, faqVars, crumbVars, bodyVars, slashVars, apiVars, scrollVars>>

\* const dates = this.extractDates($).
ExtractDates ==
    /\ ~datesOut.called
    /\ datesOut' = [called |-> TRUE] @@ extractDates(dateDoc)
    /\ UNCHANGED <<dateDoc, sessionVars, faqVars, crumbVars, bodyVars, slashVars, apiVars, scrollVars>>

(***************************************************************************)
(* The specifications.                                                     *)
(***************************************************************************)

Init == InitSession /\ InitFaqs /\ InitCrumbs /\ InitBody /\ InitSlash /\ InitApi /\ InitScroll /\ InitDates

Next ==
    \/ \E c \in Calls, arg \in TypeArgs : DirectCall(c, arg)
    \/ \E c \in Calls : LaunchDone(c)
    \/ \E c \in Calls : LaunchFail(c)
    \/ \E c \in Calls : NewPage(c)
    \/ \E c \in Calls, o \in {"ok", "navigation timeout", "navigation failed"} : Goto(c, o)
    \/ \E c \in Calls, o \in {"ok", "failed"} : Evaluate(c, o)
    \/ \E c \in Calls, o \in {"found", "timeout"} : WaitForSelector(c, o)
    \/ \E c \in Calls : Content(c)
    \/ \E c \in Calls : Close(c)
    \/ \E c \in Calls : RequestError(c)
    \/ \E c \in Calls : ResponseEnd(c)
    \/ \E c \in Calls : ResponseAborted(c)
    \/ \E s \in 1 .. NumCalls : Disconnect(s)

Spec == Init /\ [][Next]_vars

FaqsNext ==
    \/ \E e \in TextPairs : AddFaqElement("micro", e)
    \/ \E e \in Scripts : AddFaqElement("scripts", e)
    \/ \E e \in TextPairs : AddFaqElement("m3", e)
    \/ \E e \in TextPairs : AddFaqElement("m4", e)
    \/ \E e \in TextPairs : AddFaqElement("m5", e)
    \/ ExtractFaqs

SpecFaqs == Init /\ [][FaqsNext]_vars

CrumbsNext ==
    \/ \E url \in PageUrls : OpenPage(url)
    \/ \E k \in 1 .. NumSelectors, link \in Links : AddLink(k, link)
    \/ ExtractBreadcrumbs

SpecCrumbs == Init /\ [][CrumbsNext]_vars

BodyNext ==
    \/ \E e \in DocElements : AddElement(e)
    \/ \E e \in DocElements, node \in Nodes, n \in 1 .. MaxCopies : AddBlock(e, node, n)
    \/ ExtractArticleBody

SpecBody == Init /\ [][BodyNext]_vars

SlashNext ==
    \/ \E ch \in UrlChars : AppendChar(ch)
    \/ Canonicalize

SpecSlash == Init /\ [][SlashNext]_vars

\* The calls made by the request handlers and the events of their transport.
ApiNext ==
    \/ \E c \in Calls, ep \in Endpoints, hasUrl \in BOOLEAN : ApiRequest(c, ep, hasUrl)
    \/ \E c \in Calls : RequestError(c)
    \/ \E c \in Calls : ResponseEnd(c)
    \/ \E c \in Calls : ResponseAborted(c)

\* The transport of an issued GET eventually reports one of its events.
Transport(c) == RequestError(c) \/ ResponseEnd(c) \/ ResponseAborted(c)

SpecApi == Init /\ [][ApiNext]_vars /\ \A c \in Calls : WF_vars(Transport(c))

ScrollNext ==
    \/ \E kind \in PageKinds, height \in InitialHeights : StartScroll(kind, height)
    \/ Tick
    \/ \E g \in Growths : Grow(g)

\* The interval timer fires as long as it is set.
SpecScroll == Init /\ [][ScrollNext]_vars /\ WF_vars(Tick)

DatesNext ==
    \/ \E prop \in DateProps, content \in DateStrings : AddDateElement(prop, content)
    \/ ExtractDates

SpecDates == Init /\ [][DatesNext]_vars

(***************************************************************************)
(* Properties of the rendering session and of scrapeUrl (under Spec).      *)
(***************************************************************************)

\* C1: across any interleaving of concurrent FAQ-mode calls, at most one
\* rendering session started by getBrowser is alive at any time.
C1_SingleSession == Cardinality(alive) <= 1

\* C2: getBrowser reuses the stored session without launching when it exists
\* and is connected, launches otherwise (the launched session replaces the
\* stored handle and is the one returned), and so never returns a handle that
\* was disconnected when it was checked.
C2_GetBrowser ==
    [][\A c \in Calls :
        /\ (pc[c] = "idle" /\ pc'[c] # "idle" /\ log'[c].arg = "faq") =>
              IF browser # 0 /\ browser \in alive
                 THEN /\ pc'[c] = "newPage"
                      /\ localBrowser'[c] = browser
                      /\ log'[c].launches = 0
                      /\ browser' = browser /\ nLaunched' = nLaunched
                 ELSE /\ pc'[c] = "launch"
                      /\ log'[c].launches = 1
                      /\ localBrowser'[c] = 0
        /\ (pc[c] = "launch" /\ pc'[c] = "newPage") =>
              /\ localBrowser'[c] \notin 1 .. nLaunched
              /\ localBrowser'[c] \in alive'
              /\ browser' = localBrowser'[c]]_vars

\* C2 witness: one call launched because no session was stored, and a later
\* call was handed that same, still connected, session without a launch.
C2_Witness ==
    \E c1, c2 \in Calls :
        /\ log[c1].getBrowser = "first" /\ localBrowser[c1] # 0
        /\ log[c2].getBrowser = "reused" /\ localBrowser[c2] = localBrowser[c1]
        /\ log[c2].launches = 0

\* C3: every tab a FAQ-mode call opened is closed once the call has completed,
\* whether it returned data or failed, and no tab is used by a call other than
\* its opener.
C3_TabsClosed ==
    \A c \in Calls :
        /\ pc[c] = "done" => tabs[c].state # "open"
        /\ tabs[c].users \subseteq {c}

\* C4: the acquisition strategy follows the type alone: 'faq' goes through the
\* rendering session and issues no GET; 'article', 'breadcrumbs' and the
\* default issue exactly one GET and neither launch nor use the session,
\* leaving WebScraper.browser unchanged.
C4_Strategy ==
    /\ [](\A c \in Calls :
            /\ log[c].arg = "faq" =>
                  /\ log[c].gets = 0
                  /\ log[c].getBrowser # "none"
                  /\ pc[c] \notin {"fetch", "pending"}
            /\ log[c].arg \in {"article", "breadcrumbs", "undefined"} =>
                  /\ log[c].gets = 1
                  /\ log[c].launches = 0 /\ log[c].newPages = 0 /\ log[c].gotos = 0
                  /\ log[c].getBrowser = "none"
                  /\ localBrowser[c] = 0 /\ page[c] = 0)
    /\ [][\A c \in Calls :
            (pc[c] # pc'[c] /\ log'[c].arg \in {"article", "breadcrumbs", "undefined"}) =>
                /\ browser' = browser
                /\ nLaunched' = nLaunched
                /\ alive' = alive
                /\ tabs' = tabs]_vars

\* C4 witness: a FAQ call is navigating a page of the rendering session while
\* a call made without a type has returned data from its single GET, the
\* stored session untouched.
C4_Witness ==
    \E c1, c2 \in Calls :
        /\ log[c1].arg = "faq" /\ pc[c1] = "goto" /\ browser = localBrowser[c1]
        /\ log[c2].arg = "undefined" /\ result[c2].kind = "data" /\ log[c2].gets = 1

\* C5: no retries (at most one launch, one navigation or one GET per call),
\* and any failure at acquisition time makes the call fail with an error that
\* carries a message, no extraction result being returned.
C5_NoRetryFailFast ==
    \A c \in Calls :
        /\ log[c].launches <= 1 /\ log[c].gotos <= 1 /\ log[c].gets <= 1
        /\ log[c].gets = 0 \/ log[c].launches + log[c].gotos = 0
        /\ log[c].failure # "none" =>
              /\ result[c].kind = "error"
              /\ result[c].message # ""

\* C6: a navigation timeout is fatal (the call fails, no HTML is captured); a
\* timeout of the wait for a FAQ selector is not: the call goes on to capture
\* the HTML, close the tab, run extraction and return a record.
C6_Timeouts ==
    \A c \in Calls :
        /\ log[c].failure = "navigation timeout" =>
              /\ result[c].kind = "error"
              /\ ~html[c]
        /\ log[c].waitTimedOut =>
              /\ pc[c] \in {"content", "close", "done"}
              /\ log[c].failure \in {"none", "session disconnected"}
              /\ (pc[c] = "done" /\ log[c].failure = "none") =>
                    /\ result[c].kind = "data"
                    /\ html[c]
                    /\ tabs[c].state = "closed"

\* C6 witness: one call returned data after its selector wait timed out, and
\* another failed on a navigation timeout.
C6_Witness ==
    \E c1, c2 \in Calls :
        /\ log[c1].waitTimedOut /\ result[c1].kind = "data"
        /\ log[c2].failure = "navigation timeout" /\ result[c2].kind = "error"

(***************************************************************************)
(* Properties of extractFaqs (under SpecFaqs).                             *)
(***************************************************************************)

\* Two strings equal up to the case of their ASCII letters.
SameIgnoringCase(x, y) ==
    /\ Len(x) = Len(y)
    /\ \A i \in DOMAIN x :
          \/ x[i] = y[i]
          \/ \E u \in 65 .. 90 : {x[i], y[i]} = {u, u + 32}

\* The indices of the accumulated pairs that are the first with their question.
FirstOccurrences(A) ==
    {i \in DOMAIN A :
        \A j \in 1 .. i - 1 : ~SameIgnoringCase(A[j].question.v, A[i].question.v)}

\* C8: the list extractFaqs returns holds no two questions equal ignoring
\* case and at most 20 entries; when deduplication applies (every accumulated
\* question is a string) it is the first 20 of the first occurrences, in
\* accumulation order.
C8_DedupCap ==
    faqsOut.called =>
        LET R == faqsOut.faqs
            A == Accumulate(faqDoc).faqs
            F == FirstOccurrences(A)
        IN  /\ Len(R) <= 20
            /\ \A i, j \in DOMAIN R :
                  i # j => ~SameIgnoringCase(R[i].question.v, R[j].question.v)
            /\ (\A i \in DOMAIN A : A[i].question.t = "str") =>
                  /\ Len(R) = IF Cardinality(F) < 20 THEN Cardinality(F) ELSE 20
                  /\ \A k \in DOMAIN R :
                        \E i \in F : /\ Cardinality({j \in F : j <= i}) = k
                                     /\ R[k] = A[i]

\* C8 witness: more than 20 distinct questions were accumulated, one of them
\* twice in different case, and 20 entries were returned.
C8_Witness ==
    /\ faqsOut.called
    /\ Len(faqsOut.faqs) = 20
    /\ LET A == Accumulate(faqDoc).faqs
       IN  /\ Cardinality(FirstOccurrences(A)) > 20
           /\ \E i, j \in DOMAIN A :
                 /\ i < j /\ j <= 20
                 /\ A[i].question.v # A[j].question.v
                 /\ SameIgnoringCase(A[i].question.v, A[j].question.v)

\* C9 as stated: extractFaqs never raises, and whenever an exception occurred
\* inside it (in the cascade or in the post-processing) the result is the
\* empty list.
C9_AnyExceptionEmpties ==
    faqsOut.called =>
        /\ ~faqsOut.raised
        /\ (faqsOut.ignored > 0 \/ faqsOut.caught) => faqsOut.faqs = <<>>

\* C9 amended: extractFaqs never raises; an exception that escapes to the
\* outer handler (a non-string question reaching deduplication) gives the
\* empty list, while one swallowed by a JSON-LD script's own handler does not
\* empty the result.
C9_NeverRaises ==
    faqsOut.called =>
        LET A == Accumulate(faqDoc).faqs
        IN  /\ ~faqsOut.raised
            /\ faqsOut.caught <=> \E i \in DOMAIN A : A[i].question.t # "str"
            /\ faqsOut.caught => faqsOut.faqs = <<>>
            /\ (~faqsOut.caught /\ A # <<>>) => faqsOut.faqs # <<>>

\* C9 witness: one script's exception was swallowed, another script's
\* non-string question made deduplication throw, and the empty list was
\* returned.
C9_Witness ==
    /\ faqsOut.called
    /\ faqsOut.ignored > 0
    /\ faqsOut.caught
    /\ Accumulate(faqDoc).faqs # <<>>
    /\ faqsOut.faqs = <<>>

\* The pairs methods 1 and 2 find in doc, method 2's after method 1's.
Methods12(doc) ==
    EachPair(doc.micro, <<>>) \o JsonLd(doc.scripts, [faqs |-> <<>>, ignored |-> 0]).faqs

\* The pairs one of the methods 3, 4, 5 finds by itself in its elements.
MethodAlone(pairs) == EachPair(pairs, <<>>)

\* C12: methods 1 and 2 both run and accumulate in that order whatever
\* method 1 found; methods 3, 4 and 5 each run only when nothing has been
\* accumulated before them, so their pairs never join pairs of methods 1+2
\* and at most one of them contributes.
C12_Cascade ==
    faqsOut.called =>
        LET A == Accumulate(faqDoc).faqs
            P3 == MethodAlone(faqDoc.m3)
            P4 == MethodAlone(faqDoc.m4)
            P5 == MethodAlone(faqDoc.m5)
        IN  /\ A = IF Methods12(faqDoc) # <<>> THEN Methods12(faqDoc)
                   ELSE IF P3 # <<>> THEN P3
                   ELSE IF P4 # <<>> THEN P4
                   ELSE P5
            /\ \A i \in DOMAIN faqsOut.faqs : \E j \in DOMAIN A : faqsOut.faqs[i] = A[j]

\* C12 witness: method 1 found a pair and method 3's selector matched a
\* usable pair too; the result is method 1's pair alone.
C12_Witness ==
    /\ faqsOut.called
    /\ MethodAlone(faqDoc.micro) # <<>>
    /\ MethodAlone(faqDoc.m3) # <<>>
    /\ faqsOut.faqs = MethodAlone(faqDoc.micro)

(***************************************************************************)
(* Properties of extractBreadcrumbs (under SpecCrumbs).                    *)
(***************************************************************************)

\* C7: the list extractBreadcrumbs returns has positions 1, 2, ..., n in
\* output order, whether its entries come from a matched selector (some links
\* with empty text or without href included) or from the URL path.
C7_Positions ==
    (crumbsOut.called /\ ~crumbsOut.threw) =>
        \A k \in DOMAIN crumbsOut.list : crumbsOut.list[k].position = k

\* "/" + segment for the first i segments: the cumulative path prefix.
RECURSIVE PathPrefix(_, _)
PathPrefix(segments, i) ==
    IF i = 0 THEN <<>> ELSE PathPrefix(segments, i - 1) \o <<47>> \o segments[i]

\* C13: the URL-path fallback is used exactly when no breadcrumb selector
\* matches an element; its result is Home at position 1 with the origin's URL,
\* then one entry per non-empty path segment in path order, the i-th at
\* position i+1 with the origin, the cumulative path prefix and a trailing
\* slash as its URL.
C13_Fallback ==
    (crumbsOut.called /\ ~crumbsOut.threw) =>
        LET list == crumbsOut.list
            o == ParseAbsolute(crumbUrl)
            origin == o.scheme \o <<58, 47, 47>> \o o.host
            segments == PathSegments(o.pathname)
        IN  IF \E k \in DOMAIN crumbDoc : crumbDoc[k] # <<>>
               THEN \A i \in DOMAIN list :
                       \E k \in DOMAIN crumbDoc : \E j \in DOMAIN crumbDoc[k] :
                           /\ list[i].name = Trim(crumbDoc[k][j].text)
                           /\ list[i].position = j
               ELSE /\ Len(list) = 1 + Len(segments)
                    /\ list[1] = [name |-> <<72, 111, 109, 101>>,
                                  url |-> origin \o <<47>>, position |-> 1]
                    /\ \A i \in DOMAIN segments :
                          /\ list[i + 1].position = i + 1
                          /\ list[i + 1].url = origin \o PathPrefix(segments, i) \o <<47>>
                          /\ list[i + 1].name = SegmentName(segments[i])

\* C13 witness: no selector matched on http://e/a/b-c and the list is Home,
\* A, B C.
C13_Witness ==
    /\ crumbsOut.called
    /\ \A k \in DOMAIN crumbDoc : crumbDoc[k] = <<>>
    /\ crumbUrl = Site \o <<47, 97, 47, 98, 45, 99>>
    /\ Len(crumbsOut.list) = 3
    /\ crumbsOut.list[2].name = <<65>>
    /\ crumbsOut.list[3].name = <<66, 32, 67>>
    /\ crumbsOut.list[3].url = Site \o <<47, 97, 47, 98, 45, 99, 47>>

(***************************************************************************)
(* Properties of extractArticleBody (under SpecBody).                      *)
(***************************************************************************)

\* C10: extractArticleBody never returns a text whose length after whitespace
\* collapsing and trimming is 200 characters or fewer.
C10_MinLength ==
    (bodyOut.called /\ bodyOut.defined) =>
        TextLength(TrimText(Collapse(bodyOut.text))) > 200

(***************************************************************************)
(* Properties of ensureTrailingSlash (under SpecSlash).                    *)
(***************************************************************************)

\* The path, query and fragment of the URL string u.
Parts(u) ==
    LET o == ParseAbsolute(u)
    IN  [ok |-> o.ok, pathname |-> o.pathname, search |-> Search(o), hash |-> Hash(o)]

\* f(u) has the query and fragment of u, and the path of u with one slash
\* added when it did not end in one.
Canonical(u, fu) ==
    /\ Parts(fu).ok
    /\ Parts(fu).search = Parts(u).search
    /\ Parts(fu).hash = Parts(u).hash
    /\ Parts(fu).pathname =
          IF EndsWithSlash(Parts(u).pathname)
             THEN Parts(u).pathname
             ELSE Parts(u).pathname \o <<47>>

\* C11: both ensureTrailingSlash helpers are idempotent on absolute URLs,
\* keep the query and the fragment, and leave the path ending in exactly one
\* added slash when it did not end in one.
C11_Canonical ==
    /\ Len(slashOut) >= 1 =>
          /\ Canonical(slashUrl, slashOut[1].scraper)
          /\ Canonical(slashUrl, slashOut[1].schema)
    /\ Len(slashOut) = 2 => slashOut[2] = slashOut[1]

\* C11, the part that holds: both helpers are idempotent and keep the query
\* and the fragment of every absolute URL.
C11_Idempotent ==
    /\ Len(slashOut) >= 1 =>
          \A fu \in {slashOut[1].scraper, slashOut[1].schema} :
              /\ Parts(fu).search = Parts(slashUrl).search
              /\ Parts(fu).hash = Parts(slashUrl).hash
    /\ Len(slashOut) = 2 => slashOut[2] = slashOut[1]

(***************************************************************************)
(* Properties of the request handlers (under SpecApi).                     *)
(***************************************************************************)

\* C14: a request to /api/faqs scrapes with type 'faq', through the rendering
\* session and with no GET; the article and breadcrumbs endpoints scrape with
\* the static fetch.
C14_EndpointType ==
    \A c \in Calls :
        (endpoint[c].path # "none" /\ pc[c] # "idle") =>
            IF endpoint[c].path = "/api/faqs"
               THEN type[c] = "faq" /\ log[c].gets = 0 /\ log[c].getBrowser # "none"
               ELSE type[c] # "faq" /\ log[c].gets = 1 /\ log[c].getBrowser = "none"

\* C16: every scrapeUrl call that has started eventually completes with one
\* outcome, a record or an error, whatever the transport does: an error
\* before the response, a normal end, or an abort after the response started.
C16_Settles ==
    \A c \in Calls :
        (pc[c] # "idle") ~> (pc[c] = "done" /\ result[c].kind \in {"data", "error"})

(***************************************************************************)
(* Properties of the scroll loop (under SpecScroll).                       *)
(***************************************************************************)

\* C15: the scroll loop stops and resolves for every page, pages that grow
\* while they are scrolled included.
C15_ScrollTerminates == (timer = "set") ~> (timer = "cleared")

\* C15, the part that holds: the loop stops on every page that stops growing.
C15_FinitePagesTerminate ==
    (timer = "set" /\ pageKind # "endless") ~> (timer = "cleared")

(***************************************************************************)
(* Properties of extractDates (under SpecDates).                           *)
(***************************************************************************)

\* The values of the elements of doc carrying one of props, in document
\* order, that parse.
Parsable(doc, props) ==
    SelectSeq(doc, LAMBDA el : el.prop \in props /\ el.content.form \in {"date", "offset"})

\* The ISO form of the first element of doc carrying one of props whose value
\* parses, null when there is none.
FirstParsable(doc, props) ==
    IF Parsable(doc, props) = <<>> THEN [form |-> "null"]
    ELSE LET s == Parsable(doc, props)[1].content
         IN  IF s.form = "date" THEN [form |-> "iso", day |-> s.day, hour |-> 0]
             ELSE [form |-> "iso",
                   day |-> IF s.hour >= s.offset THEN s.day ELSE s.day - 1,
                   hour |-> (s.hour - s.offset + 24) % 24]

\* C17: each of datePublished and dateModified is the ISO form of the first
\* matching element, in document order, whose value parses, and is absent
\* only when no matching element has a value that parses.
C17_FirstParsableWins ==
    datesOut.called =>
        /\ datesOut.datePublished =
              FirstParsable(dateDoc, {"article:published_time", "datePublished"})
        /\ datesOut.dateModified =
              FirstParsable(dateDoc, {"article:modified_time", "dateModified"})

\* The value of the last element of doc carrying one of props with a
\* non-empty value, formatted; null when there is none.
LastValue(doc, props) ==
    LET s == SelectSeq(doc, LAMBDA el : el.prop \in props /\ el.content.form # "empty")
    IN  IF s = <<>> THEN [form |-> "null"]
        ELSE IF s[Len(s)].content.form = "text" THEN [form |-> "null"]
        ELSE FirstParsable(<<s[Len(s)]>>, props)

\* C17, what the code does: each field is taken from the last matching
\* element with a non-empty value, parsable or not; extractDates never throws.
C17_LastValueWins ==
    datesOut.called =>
        /\ datesOut.datePublished =
              LastValue(dateDoc, {"article:published_time", "datePublished"})
        /\ datesOut.dateModified =
              LastValue(dateDoc, {"article:modified_time", "dateModified"})

====
